---- MODULE Spec2Model ----
(***************************************************************************)
(* Session resolution in van-bolt.                                         *)
(*                                                                         *)
(* Two implementations of the resolver live in the repository:             *)
(*   - the Redux slice (store/slices/authSlice.ts) driven by               *)
(*     contexts/AuthProvider.tsx and services/userService.ts;  Spec        *)
(*   - the React context (contexts/AuthContext.tsx and its earlier         *)
(*     revisions);                                             CtxSpec     *)
(*                                                                         *)
(* Conventions.  A JavaScript string is a sequence of one-character        *)
(* strings; `undefined`/`null` in a string position is Undef.  A nullable  *)
(* object is a sequence of length 0 (null) or 1.  A null error string in   *)
(* the slice is NoError.                                                   *)
(***************************************************************************)
EXTENDS Integers, Sequences, FiniteSets, Bags, TLC

VARIABLES
  idp,       \* the sessions the identity provider issues in this run
  db,        \* the `users` table: identity id -> Null | <<row>>
  auth,      \* the Redux slice state (AuthState)
  thunks,    \* async thunks in flight (a bag)
  cb,        \* a session callback between its two dispatches: Null | <<session>>
  last,      \* the last action the store reduced, with the thunk it settled
  signedOut, \* history: a sign-out took effect and no session arrived since
  latest,    \* history: the identity of the most recent session event (Null: none)
  submitted, \* history: what the completeProfileSetup that succeeded was given
  variant,   \* which revision of the context resolver runs
  ctx,       \* the React context state (the useState cells of AuthProvider)
  calls,     \* async calls of the context resolver in flight (a bag)
  booted,    \* the context's getSession().then callback has run
  prefRole,  \* localStorage['preferredRole']: Null | <<[role, expiry]>>
  now,       \* Date.now(), in units of the hint's lifetime
  resolved,  \* history: identities published as Resolved since the last sign-out
  campers,   \* the Redux campers slice state (CampersState)
  app        \* the useState cells of the App component that filter the catalog

commonVars == <<idp, db>>
reduxVars == <<auth, thunks, cb, last, signedOut, latest, submitted>>
ctxVars == <<variant, ctx, calls, booted, prefRole, now, resolved>>
catalogVars == <<campers, app>>
vars == <<idp, db, auth, thunks, cb, last, signedOut, latest, submitted,
          variant, ctx, calls, booted, prefRole, now, resolved, campers, app>>

-----------------------------------------------------------------------------
(* Bounds *)

MaxInFlight == 2      \* thunks / calls that may be outstanding at once
MaxTime == 1          \* how far the clock runs

-----------------------------------------------------------------------------
(* JavaScript values *)

Null == <<>>
Some(x) == <<x>>
Val(o) == o[1]

Undef == <<"undefined">>
NoError == "null"
UndefNum == -1

Truthy(s) == s # Undef /\ s # <<>>

\* a || b
Or(a, b) == IF Truthy(a) THEN a ELSE b

IsSpace(c) == c = " "

RECURSIVE TrimStart(_)
TrimStart(s) ==
  IF s = <<>> THEN <<>>
  ELSE IF IsSpace(Head(s)) THEN TrimStart(Tail(s)) ELSE s

RECURSIVE TrimEnd(_)
TrimEnd(s) ==
  IF s = <<>> THEN <<>>
  ELSE IF IsSpace(s[Len(s)]) THEN TrimEnd(SubSeq(s, 1, Len(s) - 1)) ELSE s

\* String.prototype.trim
Trim(s) == TrimEnd(TrimStart(s))

\* s.split('@')[0]
RECURSIVE SplitAt0(_)
SplitAt0(s) ==
  IF s = <<>> THEN <<>>
  ELSE IF Head(s) = "@" THEN <<>> ELSE <<Head(s)>> \o SplitAt0(Tail(s))

\* email?.split('@')[0]
EmailLocalPart(email) == IF email = Undef THEN Undef ELSE SplitAt0(email)

EncodeChar(c) ==
  IF c = " " THEN <<"%", "2", "0">>
  ELSE IF c = "@" THEN <<"%", "4", "0">> ELSE <<c>>

RECURSIVE EncodeURIComponent(_)
EncodeURIComponent(s) ==
  IF s = <<>> THEN <<>> ELSE EncodeChar(Head(s)) \o EncodeURIComponent(Tail(s))

\* `https://ui-avatars.com/api/?name=${encodeURIComponent(name)}&size=150...`
GeneratedAvatar(n) == <<"ui-avatars?name=">> \o EncodeURIComponent(n) \o <<"&size=150">>

-----------------------------------------------------------------------------
(* Identities and sessions issued by the identity provider *)

Ids == {"u1", "u2"}

Session(id, email, fn, n, au, pic) ==
  [id |-> id, email |-> email, full_name |-> fn, name |-> n,
   avatar_url |-> au, picture |-> pic]

\* the accounts a run may sign in with: provider metadata of every shape
\* the resolver distinguishes (which of full_name, name, email, avatar_url
\* and picture are present)
Sessions ==
  { Session("u1", <<"a", "@", "x">>, <<"a", "b">>, <<"b">>, <<"p">>, <<"q">>),
    Session("u1", <<"a", "@", "x">>, Undef, <<"b">>, Undef, <<"q">>),
    Session("u1", <<"a", "@", "x">>, <<>>, Undef, Undef, Undef),
    Session("u1", <<"@", "x">>, Undef, Undef, Undef, Undef),
    Session("u1", Undef, Undef, Undef, <<"p">>, Undef),
    Session("u2", <<"b", "@", "x">>, Undef, <<>>, <<>>, <<"q">>) }

NullableSessions == {Null} \cup {Some(s) : s \in idp}

-----------------------------------------------------------------------------
(* The profile store *)

Roles == {"owner", "customer"}

Row(id, n, email, role, avatar) ==
  [id |-> id, name |-> n, email |-> email, role |-> role, avatar |-> avatar,
   rating |-> 5, review_count |-> 0]

\* the rows an account may already have when the application starts
InitialRows ==
  [u1 |-> {Null,
           Some(Row("u1", <<"a", "b">>, <<"a", "@", "x">>, "owner", <<"p">>)),
           Some(Row("u1", <<>>, <<>>, "customer", Undef))},
   u2 |-> {Null,
           Some(Row("u2", <<"b">>, <<"b", "@", "x">>, "customer", Undef))}]

\* the identities that sign in during this run
Accounts == {s.id : s \in idp}

DbError(code, message) == [code |-> code, message |-> message]

\* PostgREST: .single() on zero rows
NoRowsError == DbError("PGRST116",
                 <<"JSON object requested, multiple (or no) rows returned">>)
\* Postgres: undefined_table
MissingTableError == DbError("42P01",
                 <<"relation", "\"public.users\"", "does not exist">>)
\* transport / server failure
UnavailableError == DbError("", <<"TypeError: Failed to fetch">>)
\* Postgres: unique_violation
ConflictError == DbError("23505",
                 <<"duplicate key value violates unique constraint">>)

\* message?.includes(phrase), for the phrases the code looks for
Includes(message, phrase) == \E i \in DOMAIN message : message[i] = phrase

Response(data, error, thrown) == [data |-> data, error |-> error, thrown |-> thrown]

\* select ... .eq('id', id).limit(1).single()
SingleResponses(id) ==
  (IF db[id] = Null THEN {Response(Null, Some(NoRowsError), FALSE)}
                    ELSE {Response(db[id], Null, FALSE)})
  \cup {Response(Null, Some(MissingTableError), FALSE),
        Response(Null, Some(UnavailableError), FALSE)}

\* select ... .eq('id', id).limit(1).maybeSingle()
MaybeSingleResponses(id) ==
  {Response(db[id], Null, FALSE),
   Response(Null, Some(MissingTableError), FALSE),
   Response(Null, Some(UnavailableError), FALSE)}

\* insert([row]): primary key on id, UNIQUE on email
Conflicts(row) ==
  \E i \in Ids : db[i] # Null /\ (i = row.id \/ Val(db[i]).email = row.email)

-----------------------------------------------------------------------------
(* services/userService.ts *)

User(id, n, email, role, avatar, rating, reviewCount) ==
  [id |-> id, name |-> n, email |-> email, role |-> role, avatar |-> avatar,
   rating |-> rating, reviewCount |-> reviewCount]

UserServiceResult(user, needsProfileSetup, error) ==
  [user |-> user, needsProfileSetup |-> needsProfileSetup, error |-> error]

\* the User built from a selected row, field by field
UserFromRow(r) ==
  User(r.id, r.name, r.email, r.role, r.avatar, r.rating, r.review_count)

\* dbError.code === 'PGRST116' || dbError.message?.includes('no rows')
IsNoRows(e) == e.code = "PGRST116" \/ Includes(e.message, "no rows")

getUserProfile(resp) ==
  IF resp.thrown
    THEN UserServiceResult(Null, TRUE, "Service error")
  ELSE IF resp.error # Null
    THEN IF IsNoRows(Val(resp.error))
           THEN UserServiceResult(Null, TRUE, NoError)
           ELSE UserServiceResult(Null, FALSE, "Database error")
  ELSE IF resp.data # Null
    THEN UserServiceResult(Some(UserFromRow(Val(resp.data))), FALSE, NoError)
  ELSE UserServiceResult(Null, TRUE, NoError)

\* the row with the name as it was typed
InsertRow_untrimmed(userData) ==
  [id |-> userData.id, name |-> userData.name, email |-> userData.email,
   role |-> userData.role, avatar |-> GeneratedAvatar(userData.name),
   rating |-> 5, review_count |-> 0]

\* the row createUserProfile sends: the avatar is always generated
InsertRow(userData) ==
  [id |-> userData.id, name |-> Trim(userData.name), email |-> userData.email,
   role |-> userData.role, avatar |-> GeneratedAvatar(userData.name),
   rating |-> 5, review_count |-> 0]

\* createUserProfile returning the profile it asked for instead of the echo
createUserProfile_fromRequest(userData, resp) ==
  IF resp.thrown THEN [user |-> Null, error |-> "Service error"]
  ELSE IF resp.error # Null THEN [user |-> Null, error |-> "Failed to create profile"]
  ELSE [user |-> Some(User(userData.id, userData.name, userData.email, userData.role,
                           GeneratedAvatar(userData.name), 5, 0)),
        error |-> NoError]

createUserProfile(userData, resp) ==
  IF resp.thrown THEN [user |-> Null, error |-> "Service error"]
  ELSE IF resp.error # Null THEN [user |-> Null, error |-> "Failed to create profile"]
  ELSE [user |-> Some(UserFromRow(Val(resp.data))), error |-> NoError]

-----------------------------------------------------------------------------
(* store/slices/authSlice.ts: state and thunks *)

initialState ==
  [user |-> Null, session |-> Null, loading |-> TRUE,
   needsProfileSetup |-> FALSE, pendingUserData |-> Null,
   error |-> NoError, isAuthenticated |-> FALSE]

\* pendingData with the short name taking precedence over the full name
PendingData_nameFirst(s) ==
  [id |-> s.id,
   email |-> Or(s.email, <<>>),
   name |-> Or(s.name, Or(s.full_name, Or(EmailLocalPart(s.email), <<"U", "s", "e", "r">>))),
   avatar |-> Or(s.avatar_url, s.picture)]

\* pendingData of handleUserSession
PendingData(s) ==
  [id |-> s.id,
   email |-> Or(s.email, <<>>),
   name |-> Or(s.full_name, Or(s.name, Or(EmailLocalPart(s.email), <<"U", "s", "e", "r">>))),
   avatar |-> Or(s.avatar_url, s.picture)]

Outcome(status, type, session, pendingUserData, user, error) ==
  [status |-> status, type |-> type, session |-> session,
   pendingUserData |-> pendingUserData, user |-> user, error |-> error]

\* payload creator of handleUserSession: session is nullable, resp is the
\* store's answer to the lookup (unused for a null session)
handleUserSession(session, resp) ==
  IF session = Null
    THEN Outcome("fulfilled", "NO_SESSION", Null, Null, Null, NoError)
  ELSE LET r == getUserProfile(Val(resp)) IN
    IF r.error # NoError
      THEN Outcome("rejected", "", Null, Null, Null, r.error)
    ELSE IF r.needsProfileSetup
      THEN Outcome("fulfilled", "NEEDS_PROFILE_SETUP", session,
                   Some(PendingData(Val(session))), Null, NoError)
    ELSE IF r.user # Null
      THEN Outcome("fulfilled", "USER_LOADED", session, Null, r.user, NoError)
    ELSE Outcome("rejected", "", Null, Null, Null, "Unknown user state")

\* what completeProfileSetup hands to createUserProfile
ProfileRequest(pending, profileData) ==
  [id |-> pending.id, name |-> profileData.name, email |-> pending.email,
   role |-> profileData.role]

\* payload creator of completeProfileSetup: pending is state.auth.pendingUserData
\* read when the thunk starts, profileData the argument, resp the store's
\* answer to the insert
completeProfileSetup(pending, profileData, resp) ==
  IF pending = Null
    THEN Outcome("rejected", "", Null, Null, Null, "No pending user data")
  ELSE LET r == createUserProfile(ProfileRequest(Val(pending), profileData), Val(resp)) IN
    IF r.error # NoError
      THEN Outcome("rejected", "", Null, Null, Null, r.error)
    ELSE IF r.user = Null
      THEN Outcome("rejected", "", Null, Null, Null, "Failed to create user profile")
    ELSE Outcome("fulfilled", "", Null, Null, r.user, NoError)

-----------------------------------------------------------------------------
(* store/slices/authSlice.ts: reducers *)

setSession(state, payload) ==
  [state EXCEPT !.session = payload, !.isAuthenticated = (payload # Null)]

\* handleUserSession.pending that hides the form and keeps its data
handleUserSession_pending_keepsPending(state) ==
  [state EXCEPT !.loading = TRUE, !.error = NoError,
                !.needsProfileSetup = FALSE]

handleUserSession_pending(state) ==
  [state EXCEPT !.loading = TRUE, !.error = NoError,
                !.needsProfileSetup = FALSE, !.pendingUserData = Null]

\* handleUserSession.fulfilled whose NO_SESSION branch leaves the user in place
handleUserSession_fulfilled_keepsUser(state, payload) ==
  IF payload.type = "NO_SESSION" THEN
    [state EXCEPT !.loading = FALSE, !.session = Null,
                  !.isAuthenticated = FALSE, !.needsProfileSetup = FALSE,
                  !.pendingUserData = Null]
  ELSE IF payload.type = "NEEDS_PROFILE_SETUP" THEN
    [state EXCEPT !.loading = FALSE, !.session = payload.session,
                  !.isAuthenticated = TRUE, !.user = Null,
                  !.needsProfileSetup = TRUE,
                  !.pendingUserData = payload.pendingUserData]
  ELSE IF payload.type = "USER_LOADED" THEN
    [state EXCEPT !.loading = FALSE, !.session = payload.session,
                  !.isAuthenticated = TRUE, !.user = payload.user,
                  !.needsProfileSetup = FALSE, !.pendingUserData = Null]
  ELSE [state EXCEPT !.loading = FALSE]

handleUserSession_fulfilled(state, payload) ==
  IF payload.type = "NO_SESSION" THEN
    [state EXCEPT !.loading = FALSE, !.user = Null, !.session = Null,
                  !.isAuthenticated = FALSE, !.needsProfileSetup = FALSE,
                  !.pendingUserData = Null]
  ELSE IF payload.type = "NEEDS_PROFILE_SETUP" THEN
    [state EXCEPT !.loading = FALSE, !.session = payload.session,
                  !.isAuthenticated = TRUE, !.user = Null,
                  !.needsProfileSetup = TRUE,
                  !.pendingUserData = payload.pendingUserData]
  ELSE IF payload.type = "USER_LOADED" THEN
    [state EXCEPT !.loading = FALSE, !.session = payload.session,
                  !.isAuthenticated = TRUE, !.user = payload.user,
                  !.needsProfileSetup = FALSE, !.pendingUserData = Null]
  ELSE [state EXCEPT !.loading = FALSE]

handleUserSession_rejected(state, payload) ==
  [state EXCEPT !.loading = FALSE, !.error = payload.error]

completeProfileSetup_pending(state) ==
  [state EXCEPT !.loading = TRUE, !.error = NoError]

completeProfileSetup_fulfilled(state, payload) ==
  [state EXCEPT !.loading = FALSE, !.user = payload.user,
                !.needsProfileSetup = FALSE, !.pendingUserData = Null]

\* completeProfileSetup.rejected that also closes the setup form
completeProfileSetup_rejected_closesForm(state, payload) ==
  [state EXCEPT !.loading = FALSE, !.error = payload.error,
                !.needsProfileSetup = FALSE, !.pendingUserData = Null]

completeProfileSetup_rejected(state, payload) ==
  [state EXCEPT !.loading = FALSE, !.error = payload.error]

\* login.pending, loginWithGoogle.pending, register.pending
signIn_pending(state) == [state EXCEPT !.loading = TRUE, !.error = NoError]

\* login.fulfilled, loginWithGoogle.fulfilled, register.fulfilled
signIn_fulfilled(state) == [state EXCEPT !.loading = FALSE]

\* login.rejected, loginWithGoogle.rejected, register.rejected
signIn_rejected(state, error) == [state EXCEPT !.loading = FALSE, !.error = error]

logout_pending(state) == [state EXCEPT !.loading = TRUE]

logout_fulfilled(state) ==
  [state EXCEPT !.user = Null, !.session = Null, !.loading = FALSE,
                !.needsProfileSetup = FALSE, !.pendingUserData = Null,
                !.error = NoError, !.isAuthenticated = FALSE]

logout_rejected(state, error) == [state EXCEPT !.loading = FALSE, !.error = error]

-----------------------------------------------------------------------------
(* The Redux store at run time: dispatches and thunks in flight *)

Thunk(kind, session, pending, data, stage, resp) ==
  [kind |-> kind, session |-> session, pending |-> pending, data |-> data,
   stage |-> stage, resp |-> resp]

Action(type, thunk) == [type |-> type, thunk |-> thunk]

Add(bag, t) == bag (+) SetToBag({t})
Remove(bag, t) == bag (-) SetToBag({t})
Replace(bag, t, u) == Add(Remove(bag, t), u)

\* a thunk whose promise is already settled: its next dispatch is a microtask
\* and runs before any other event
ReadyPending == \E t \in BagToSet(thunks) : t.stage = "ready"

\* the event loop may start a new task
Idle == cb = Null /\ ~ReadyPending

\* a new thunk may start
Room == BagCardinality(thunks) < MaxInFlight

ProfileInputs ==
  { [name |-> <<"a", " ">>, role |-> "owner"],
    [name |-> <<"a">>, role |-> "customer"],
    [name |-> <<" ">>, role |-> "customer"] }

\* the context resolver does not run
CtxOff ==
  /\ variant = "none"
  /\ ctx = <<>>
  /\ calls = EmptyBag
  /\ booted = FALSE
  /\ prefRole = Null
  /\ now = 0
  /\ resolved = {}

\* neither listing filter runs
CatalogOff ==
  /\ campers = <<>>
  /\ app = <<>>

InitRedux ==
  /\ auth = initialState
  /\ thunks = EmptyBag
  /\ cb = Null
  /\ last = Action("@@INIT", Null)
  /\ signedOut = FALSE
  /\ latest = Null
  /\ submitted = Null

\* one browser profile, one account; only that account's row matters
InitStore(sessions, rows) ==
  /\ idp \in {{s} : s \in sessions}
  /\ db \in [Ids -> UNION {rows[i] : i \in Ids}]
  /\ \A i \in Ids : db[i] \in (IF i \in Accounts THEN rows[i] ELSE {Null})

Init ==
  /\ InitStore(Sessions, InitialRows)
  /\ InitRedux
  /\ CtxOff
  /\ CatalogOff

\* AuthProvider: the getSession().then callback and the onAuthStateChange
\* callback, first dispatch: dispatch(setSession(session))
SessionEvent(s) ==
  /\ Idle /\ Room
  /\ auth' = setSession(auth, s)
  /\ cb' = Some(s)
  /\ last' = Action("auth/setSession", Null)
  /\ signedOut' = (signedOut /\ s = Null)
  /\ latest' = (IF s = Null THEN Null ELSE Some(Val(s).id))
  /\ UNCHANGED <<thunks, submitted, commonVars, ctxVars, catalogVars>>

\* either callback, second dispatch: dispatch(handleUserSession(session)).
\* createAsyncThunk reduces `pending` synchronously and starts the payload
\* creator, which returns at once for a null session and otherwise sends
\* the lookup.
DispatchHandleUserSession ==
  /\ cb # Null
  /\ auth' = handleUserSession_pending(auth)
  /\ thunks' = Add(thunks,
       Thunk("handleUserSession", Val(cb), Null, Null,
             IF Val(cb) = Null THEN "ready" ELSE "sent", Null))
  /\ cb' = Null
  /\ last' = Action("auth/handleUserSession/pending", Null)
  /\ UNCHANGED <<signedOut, latest, submitted, commonVars, ctxVars, catalogVars>>

\* the store answers a lookup
LookupAnswer(t) ==
  /\ Idle
  /\ t.kind = "handleUserSession" /\ t.stage = "sent"
  /\ \E r \in SingleResponses(Val(t.session).id) :
       thunks' = Replace(thunks, t, [t EXCEPT !.stage = "answered", !.resp = Some(r)])
  /\ UNCHANGED <<auth, cb, last, signedOut, latest, submitted, commonVars, ctxVars, catalogVars>>

\* handleUserSession settles: fulfilled or rejected is reduced
HandleUserSessionSettle(t) ==
  /\ cb = Null
  /\ t.kind = "handleUserSession"
  /\ \/ t.stage = "ready"
     \/ t.stage = "answered" /\ ~ReadyPending
  /\ LET o == handleUserSession(t.session, t.resp) IN
       /\ auth' = IF o.status = "fulfilled"
                    THEN handleUserSession_fulfilled(auth, o)
                    ELSE handleUserSession_rejected(auth, o)
       /\ last' = Action("auth/handleUserSession/" \o o.status, Some(t))
       /\ signedOut' = (signedOut \/ (o.status = "fulfilled" /\ o.type = "NO_SESSION"))
  /\ thunks' = Remove(thunks, t)
  /\ UNCHANGED <<cb, latest, submitted, commonVars, ctxVars, catalogVars>>

\* AppContent.handleProfileSetupSuccess: dispatch(completeProfileSetup(data)).
\* `pending` is reduced, then the payload creator reads pendingUserData and
\* either rejects at once or sends the insert.
CompleteProfileSetup(data) ==
  /\ Idle /\ Room
  /\ auth' = completeProfileSetup_pending(auth)
  /\ thunks' = Add(thunks,
       Thunk("completeProfileSetup", Null, auth'.pendingUserData, Some(data),
             IF auth'.pendingUserData = Null THEN "ready" ELSE "sent", Null))
  /\ last' = Action("auth/completeProfileSetup/pending", Null)
  /\ UNCHANGED <<cb, signedOut, latest, submitted, commonVars, ctxVars, catalogVars>>

\* the row a completeProfileSetup thunk asks the store to insert
RequestedRow(t) == InsertRow(ProfileRequest(Val(t.pending), Val(t.data)))

\* the store answers an insert: a conflicting row is refused, otherwise the
\* row is written and echoed, or the store fails without writing
InsertAnswer(t) ==
  /\ Idle
  /\ t.kind = "completeProfileSetup" /\ t.stage = "sent"
  /\ LET row == RequestedRow(t) IN
       \/ /\ Conflicts(row)
          /\ thunks' = Replace(thunks, t, [t EXCEPT !.stage = "answered",
                          !.resp = Some(Response(Null, Some(ConflictError), FALSE))])
          /\ db' = db
       \/ /\ ~Conflicts(row)
          /\ thunks' = Replace(thunks, t, [t EXCEPT !.stage = "answered",
                          !.resp = Some(Response(Some(row), Null, FALSE))])
          /\ db' = [db EXCEPT ![row.id] = Some(row)]
       \/ /\ thunks' = Replace(thunks, t, [t EXCEPT !.stage = "answered",
                          !.resp = Some(Response(Null, Some(UnavailableError), FALSE))])
          /\ db' = db
  /\ UNCHANGED <<idp, auth, cb, last, signedOut, latest, submitted, ctxVars, catalogVars>>

\* completeProfileSetup settles
CompleteProfileSetupSettle(t) ==
  /\ cb = Null
  /\ t.kind = "completeProfileSetup"
  /\ \/ t.stage = "ready"
     \/ t.stage = "answered" /\ ~ReadyPending
  /\ LET o == completeProfileSetup(t.pending, Val(t.data), t.resp) IN
       /\ auth' = IF o.status = "fulfilled"
                    THEN completeProfileSetup_fulfilled(auth, o)
                    ELSE completeProfileSetup_rejected(auth, o)
       /\ last' = Action("auth/completeProfileSetup/" \o o.status, Some(t))
       /\ submitted' = IF o.status = "fulfilled"
                         THEN Some(ProfileRequest(Val(t.pending), Val(t.data)))
                         ELSE submitted
  /\ thunks' = Remove(thunks, t)
  /\ UNCHANGED <<cb, signedOut, latest, commonVars, ctxVars, catalogVars>>

\* dispatch(login(...)), dispatch(loginWithGoogle()), dispatch(register(...)):
\* the three thunks reduce alike
SignIn ==
  /\ Idle /\ Room
  /\ auth' = signIn_pending(auth)
  /\ thunks' = Add(thunks, Thunk("signIn", Null, Null, Null, "sent", Null))
  /\ last' = Action("auth/signIn/pending", Null)
  /\ UNCHANGED <<cb, signedOut, latest, submitted, commonVars, ctxVars, catalogVars>>

\* the identity provider answers signInWithPassword / signInWithOAuth / signUp
SignInSettle(t, ok) ==
  /\ Idle
  /\ t.kind = "signIn"
  /\ auth' = IF ok THEN signIn_fulfilled(auth) ELSE signIn_rejected(auth, "auth error")
  /\ last' = Action(IF ok THEN "auth/signIn/fulfilled" ELSE "auth/signIn/rejected", Some(t))
  /\ thunks' = Remove(thunks, t)
  /\ UNCHANGED <<cb, signedOut, latest, submitted, commonVars, ctxVars, catalogVars>>

\* Header: dispatch(logout())
Logout ==
  /\ Idle /\ Room
  /\ auth' = logout_pending(auth)
  /\ thunks' = Add(thunks, Thunk("logout", Null, Null, Null, "sent", Null))
  /\ last' = Action("auth/logout/pending", Null)
  /\ UNCHANGED <<cb, signedOut, latest, submitted, commonVars, ctxVars, catalogVars>>

\* the identity provider answers signOut
LogoutSettle(t, ok) ==
  /\ Idle
  /\ t.kind = "logout"
  /\ auth' = IF ok THEN logout_fulfilled(auth) ELSE logout_rejected(auth, "auth error")
  /\ last' = Action(IF ok THEN "auth/logout/fulfilled" ELSE "auth/logout/rejected", Some(t))
  /\ signedOut' = (signedOut \/ ok)
  /\ thunks' = Remove(thunks, t)
  /\ UNCHANGED <<cb, latest, submitted, commonVars, ctxVars, catalogVars>>

Next ==
  \/ \E s \in NullableSessions : SessionEvent(s)
  \/ DispatchHandleUserSession
  \/ \E t \in BagToSet(thunks) : LookupAnswer(t)
  \/ \E t \in BagToSet(thunks) : HandleUserSessionSettle(t)
  \/ \E d \in ProfileInputs : CompleteProfileSetup(d)
  \/ \E t \in BagToSet(thunks) : InsertAnswer(t)
  \/ \E t \in BagToSet(thunks) : CompleteProfileSetupSettle(t)
  \/ SignIn
  \/ \E t \in BagToSet(thunks), ok \in BOOLEAN : SignInSettle(t, ok)
  \/ Logout
  \/ \E t \in BagToSet(thunks), ok \in BOOLEAN : LogoutSettle(t, ok)

Spec == Init /\ [][Next]_vars

\* What the client does once it can: a callback's second dispatch follows
\* its first, a settled promise is reduced, and the identity provider answers
\* signIn and signOut.  Nothing obliges the profile store to answer.
ClientFairness ==
  /\ WF_vars(DispatchHandleUserSession)
  /\ WF_vars(\E t \in BagToSet(thunks) : HandleUserSessionSettle(t))
  /\ WF_vars(\E t \in BagToSet(thunks) : CompleteProfileSetupSettle(t))
  /\ WF_vars(\E t \in BagToSet(thunks), ok \in BOOLEAN : SignInSettle(t, ok))
  /\ WF_vars(\E t \in BagToSet(thunks), ok \in BOOLEAN : LogoutSettle(t, ok))

LiveSpec == Init /\ [][Next]_vars /\ ClientFairness

-----------------------------------------------------------------------------
(* contexts/AuthContext.tsx and its earlier revisions: the context resolver *)
(*                                                                          *)
(*   "AuthContext"  contexts/AuthContext.tsx                                *)
(*   "single"       the single-request revision (1.5 s lookup timeout)      *)
(*   "classify"     the revision that classifies lookup errors              *)
(*                                                                          *)
(* The state setters a handler calls in one synchronous run are committed   *)
(* together (React batches them), so one run is one publish.                *)

NoRole == "null"

ctxInitialState ==
  [user |-> Null, session |-> Null, loading |-> TRUE,
   needsProfileSetup |-> FALSE, pendingUserData |-> Null,
   justCreatedProfile |-> FALSE]

\* a stored hint: JSON of {role, expiry}
HintEntry(role, expiry) == [json |-> TRUE, role |-> role, expiry |-> expiry]

\* a stored string JSON.parse rejects
CorruptEntry == [json |-> FALSE, role |-> "undefined", expiry |-> 0]

\* the hint a prior visit may have left: written with a 10 minute expiry
PrefRoleEntries == {Null, Some(HintEntry("owner", 0))}

\* the rows of the context model: none, or one with an empty name
CtxInitialRows ==
  [u1 |-> {Null, Some(Row("u1", <<>>, <<>>, "owner", Undef))},
   u2 |-> {Null}]

\* what the setup form submits
CtxProfileInputs ==
  { [name |-> <<"a", " ">>, role |-> "owner"],
    [name |-> <<"a">>, role |-> "customer"] }

\* the accounts of the context model: full provider metadata, and nearly none
CtxSessions ==
  { Session("u1", <<"a", "@", "x">>, <<"a", "b">>, <<"b">>, <<"p">>, <<"q">>),
    Session("u2", <<"b", "@", "x">>, Undef, <<>>, <<>>, <<"q">>) }

\* getPreferredRole(): the role it returns
getPreferredRole_ignoresExpiry ==
  IF prefRole = Null THEN NoRole
  ELSE IF ~Val(prefRole).json THEN NoRole
  ELSE Val(prefRole).role
getPreferredRole ==
  IF prefRole = Null THEN NoRole
  ELSE IF ~Val(prefRole).json THEN NoRole
  ELSE IF now > Val(prefRole).expiry THEN NoRole
  ELSE Val(prefRole).role

\* getPreferredRole(): what it leaves in localStorage
prefRoleAfterGet ==
  IF prefRole = Null THEN Null
  ELSE IF ~Val(prefRole).json THEN Null
  ELSE IF now > Val(prefRole).expiry THEN Null
  ELSE prefRole

\* the useEffect that registers both callbacks has no dependencies, so the
\* handleUserSession they call is the first render's, and the
\* justCreatedProfile it reads is the initial one
justCreatedProfileSeen == FALSE

\* the provider-metadata fallback chain shared by createFallbackUser and
\* setupPendingProfile
MetaName(u) ==
  Or(u.full_name, Or(u.name, Or(EmailLocalPart(u.email), <<"U", "s", "e", "r">>)))

MetaAvatar(u) == Or(u.avatar_url, u.picture)

\* the User built from a fetched row
CtxUserFromRow(r) ==
  User(r.id, Or(r.name, <<"U", "s", "e", "r">>), Or(r.email, <<>>), r.role,
       r.avatar, r.rating, r.review_count)

\* the User createUserProfile builds from the echoed row
CtxUserFromEcho(r) ==
  User(r.id, r.name, r.email, r.role, r.avatar, r.rating, r.review_count)

\* fetchUserProfile: a row, or null on error, timeout or no row
fetchUserProfile(resp) ==
  IF resp.thrown THEN Null
  ELSE IF resp.error # Null THEN Null
  ELSE IF resp.data # Null THEN Some(CtxUserFromRow(Val(resp.data)))
  ELSE Null

resetAuthState(state) ==
  [state EXCEPT !.user = Null, !.needsProfileSetup = FALSE,
                !.pendingUserData = Null, !.justCreatedProfile = FALSE,
                !.loading = FALSE]

createFallbackUser(state, u) ==
  [state EXCEPT
     !.user = Some(User(u.id, MetaName(u), Or(u.email, <<>>), "customer",
                        MetaAvatar(u), UndefNum, UndefNum)),
     !.needsProfileSetup = FALSE, !.pendingUserData = Null,
     !.justCreatedProfile = FALSE, !.loading = FALSE]

setupPendingProfile(state, u, preferredRole) ==
  [state EXCEPT
     !.pendingUserData = Some([id |-> u.id, email |-> Or(u.email, <<>>),
                               name |-> MetaName(u), avatar |-> MetaAvatar(u),
                               preferredRole |-> IF preferredRole = NoRole
                                                   THEN "undefined" ELSE preferredRole]),
     !.needsProfileSetup = TRUE, !.user = Null,
     !.justCreatedProfile = FALSE, !.loading = FALSE]

\* the profile-found branch of handleUserSession
setLoadedUser(state, user) ==
  [state EXCEPT !.user = user, !.needsProfileSetup = FALSE,
                !.pendingUserData = Null, !.loading = FALSE]

\* the error classes the classifying revision sends to profile setup
IsNotFoundClass(e) ==
  \/ e.code = "PGRST116"
  \/ Includes(e.message, "not found")
  \/ Includes(e.message, "no rows")
  \/ e.code = "42P01"
  \/ Includes(e.message, "relation")
  \/ Includes(e.message, "does not exist")

\* what handleUserSession publishes once its lookup has settled:
\* u the session's user, pref the hint read before the lookup, resp the
\* store's answer, or a thrown response for the timer winning the race
ctxHandleUserSession(state, u, pref, resp) ==
  IF variant = "AuthContext" THEN
    LET userProfile == fetchUserProfile(resp) IN
      IF userProfile # Null THEN setLoadedUser(state, userProfile)
      ELSE setupPendingProfile(state, u, pref)
  ELSE IF variant = "single" THEN
    IF resp.thrown \/ resp.error # Null THEN createFallbackUser(state, u)
    ELSE IF resp.data # Null
      THEN setLoadedUser(state, Some(CtxUserFromRow(Val(resp.data))))
    ELSE setupPendingProfile(state, u, getPreferredRole)
  ELSE
    IF resp.thrown THEN createFallbackUser(state, u)
    ELSE IF resp.error # Null THEN
      IF IsNotFoundClass(Val(resp.error)) THEN setupPendingProfile(state, u, pref)
      ELSE createFallbackUser(state, u)
    ELSE IF resp.data # Null
      THEN setLoadedUser(state, Some(CtxUserFromRow(Val(resp.data))))
    ELSE setupPendingProfile(state, u, pref)

\* localStorage['preferredRole'] after handleUserSession has published
prefRoleAfterSession(pref, resp) ==
  LET found == ~resp.thrown /\ resp.error = Null /\ resp.data # Null IN
    IF variant = "single" THEN
      IF resp.thrown \/ resp.error # Null THEN prefRole
      ELSE IF found THEN Null ELSE prefRoleAfterGet
    ELSE IF found /\ pref # NoRole THEN Null ELSE prefRole

\* the row createUserProfile inserts: the pending avatar, or a generated one
CtxInsertRow(pending, userData) ==
  [id |-> pending.id, name |-> Trim(userData.name), email |-> pending.email,
   role |-> userData.role,
   avatar |-> IF Truthy(pending.avatar) THEN pending.avatar
              ELSE GeneratedAvatar(userData.name),
   rating |-> 5, review_count |-> 0]

\* createUserProfile after a successful insert
setCreatedUser(state, row) ==
  [state EXCEPT !.justCreatedProfile = (variant = "AuthContext"),
                !.user = Some(CtxUserFromEcho(row)),
                !.needsProfileSetup = FALSE, !.pendingUserData = Null]

\* an async call in flight; `created` is history: when the call started,
\* createUserProfile had succeeded for the call's identity
Call(kind, user, pref, req, stage, resp, created) ==
  [kind |-> kind, user |-> user, pref |-> pref, req |-> req,
   stage |-> stage, resp |-> resp, created |-> created]

CtxRoom == BagCardinality(calls) < MaxInFlight

Timeout == Response(Null, Null, TRUE)

\* identities whose user is published
Published(state) == IF state.user = Null THEN {} ELSE {Val(state.user).id}

CtxStart ==
  /\ InitStore(CtxSessions, CtxInitialRows)
  /\ InitRedux
  /\ ctx = ctxInitialState
  /\ calls = EmptyBag
  /\ booted = FALSE
  /\ prefRole \in PrefRoleEntries
  /\ now = 0
  /\ resolved = {}
  /\ CatalogOff

\* contexts/AuthContext.tsx
CtxInit == CtxStart /\ variant = "AuthContext"

\* the two earlier revisions
RevInit == CtxStart /\ variant \in {"single", "classify"}

\* handleUserSession up to its await: the hint is read, the single-request
\* revision clears the modal state and shows loading, the lookup is sent
StartHandleUserSession(state, u) ==
  /\ ctx' = IF variant = "single"
              THEN [state EXCEPT !.needsProfileSetup = FALSE,
                                 !.pendingUserData = Null, !.loading = TRUE]
              ELSE state
  /\ calls' = Add(calls, Call("handleUserSession", Some(u),
                              IF variant = "single" THEN NoRole ELSE getPreferredRole,
                              Null, "sent", Null,
                              /\ state.justCreatedProfile
                              /\ state.user # Null
                              /\ Val(state.user).id = u.id))
  /\ prefRole' = IF variant = "single" THEN prefRole ELSE prefRoleAfterGet

\* getSession().then(...): an error or no session only ends loading
CtxInitialSession(s, error) ==
  /\ ~booted /\ CtxRoom
  /\ booted' = TRUE
  /\ IF error THEN
       /\ ctx' = [ctx EXCEPT !.loading = FALSE]
       /\ UNCHANGED <<calls, prefRole>>
     ELSE IF s = Null THEN
       /\ ctx' = [ctx EXCEPT !.session = Null, !.loading = FALSE]
       /\ UNCHANGED <<calls, prefRole>>
     ELSE StartHandleUserSession([ctx EXCEPT !.session = s], Val(s))
  /\ UNCHANGED <<variant, now, resolved, commonVars, reduxVars, catalogVars>>

\* the onAuthStateChange callback
CtxAuthStateChange(s) ==
  /\ CtxRoom
  /\ IF s = Null THEN
       /\ ctx' = resetAuthState([ctx EXCEPT !.session = Null])
       /\ resolved' = {}
       /\ UNCHANGED <<calls, prefRole>>
     ELSE
       /\ StartHandleUserSession([ctx EXCEPT !.session = s], Val(s))
       /\ resolved' = resolved
  /\ UNCHANGED <<variant, booted, now, commonVars, reduxVars, catalogVars>>

\* the store answers a lookup
CtxLookupAnswer(c) ==
  /\ c.kind = "handleUserSession" /\ c.stage = "sent"
  /\ \E r \in MaybeSingleResponses(Val(c.user).id) :
       calls' = Replace(calls, c, [c EXCEPT !.stage = "answered", !.resp = Some(r)])
  /\ UNCHANGED <<ctx, variant, booted, prefRole, now, resolved, commonVars, reduxVars, catalogVars>>

\* handleUserSession resumes: with the answer, or with the timer's rejection
CtxHandleUserSessionSettle(c, timedOut) ==
  /\ c.kind = "handleUserSession"
  /\ timedOut \/ c.stage = "answered"
  /\ LET resp == IF timedOut THEN Timeout ELSE Val(c.resp) IN
       /\ ctx' = ctxHandleUserSession(ctx, Val(c.user), c.pref, resp)
       /\ prefRole' = prefRoleAfterSession(c.pref, resp)
  /\ resolved' = resolved \cup Published(ctx')
  /\ calls' = Remove(calls, c)
  /\ UNCHANGED <<variant, booted, now, commonVars, reduxVars, catalogVars>>

\* createUserProfile up to its await; without pending data it returns an
\* error and changes nothing
CtxCreateUserProfile(userData) ==
  /\ CtxRoom
  /\ ctx.pendingUserData # Null
  /\ calls' = Add(calls, Call("createUserProfile", Null, NoRole,
                              Some(CtxInsertRow(Val(ctx.pendingUserData), userData)),
                              "sent", Null, FALSE))
  /\ UNCHANGED <<ctx, variant, booted, prefRole, now, resolved, commonVars, reduxVars, catalogVars>>

\* the store answers an insert (also one whose caller has timed out)
CtxInsertAnswer(c) ==
  /\ c.kind \in {"createUserProfile", "abandonedInsert"} /\ c.stage = "sent"
  /\ LET row == Val(c.req)
         answered(r) == IF c.kind = "abandonedInsert" THEN Remove(calls, c)
                        ELSE Replace(calls, c, [c EXCEPT !.stage = "answered", !.resp = Some(r)])
     IN
       \/ /\ Conflicts(row)
          /\ calls' = answered(Response(Null, Some(ConflictError), FALSE))
          /\ db' = db
       \/ /\ ~Conflicts(row)
          /\ calls' = answered(Response(Some(row), Null, FALSE))
          /\ db' = [db EXCEPT ![row.id] = Some(row)]
       \/ /\ calls' = answered(Response(Null, Some(UnavailableError), FALSE))
          /\ db' = db
  /\ UNCHANGED <<idp, ctx, variant, booted, prefRole, now, resolved, reduxVars, catalogVars>>

\* createUserProfile resumes: with the answer, or with the timer's rejection
\* (the insert it sent may still reach the store)
CtxCreateUserProfileSettle(c, timedOut) ==
  /\ c.kind = "createUserProfile"
  /\ timedOut \/ c.stage = "answered"
  /\ IF timedOut THEN
       /\ ctx' = IF variant = "AuthContext"
                   THEN [ctx EXCEPT !.justCreatedProfile = FALSE] ELSE ctx
       /\ calls' = IF c.stage = "sent"
                     THEN Replace(calls, c, [c EXCEPT !.kind = "abandonedInsert"])
                     ELSE Remove(calls, c)
       /\ UNCHANGED prefRole
     ELSE IF Val(c.resp).error # Null THEN
       /\ calls' = Remove(calls, c)
       /\ UNCHANGED <<ctx, prefRole>>
     ELSE
       /\ ctx' = setCreatedUser(ctx, Val(Val(c.resp).data))
       /\ prefRole' = Null
       /\ calls' = Remove(calls, c)
  /\ resolved' = resolved \cup Published(ctx')
  /\ UNCHANGED <<variant, booted, now, commonVars, reduxVars, catalogVars>>

\* login(): loading until the provider refuses; a success arrives as an
\* auth state change
CtxLogin ==
  /\ CtxRoom
  /\ ctx' = [ctx EXCEPT !.loading = TRUE]
  /\ calls' = Add(calls, Call("login", Null, NoRole, Null, "sent", Null, FALSE))
  /\ UNCHANGED <<variant, booted, prefRole, now, resolved, commonVars, reduxVars, catalogVars>>

\* signInWithPassword answers
CtxLoginSettle(c, ok) ==
  /\ c.kind = "login"
  /\ ctx' = IF ok THEN ctx ELSE [ctx EXCEPT !.loading = FALSE]
  /\ calls' = Remove(calls, c)
  /\ UNCHANGED <<variant, booted, prefRole, now, resolved, commonVars, reduxVars, catalogVars>>

\* logout() up to its await
CtxLogout ==
  /\ CtxRoom
  /\ ctx' = [ctx EXCEPT !.loading = TRUE]
  /\ prefRole' = Null
  /\ calls' = Add(calls, Call("logout", Null, NoRole, Null, "sent", Null, FALSE))
  /\ UNCHANGED <<variant, booted, now, resolved, commonVars, reduxVars, catalogVars>>

\* signOut answers: logout() resets whatever the answer
CtxLogoutSettle(c) ==
  /\ c.kind = "logout"
  /\ ctx' = resetAuthState(ctx)
  /\ resolved' = {}
  /\ calls' = Remove(calls, c)
  /\ UNCHANGED <<variant, booted, prefRole, now, commonVars, reduxVars, catalogVars>>

\* time passes
Tick ==
  /\ now < MaxTime
  /\ now' = now + 1
  /\ UNCHANGED <<variant, ctx, calls, booted, prefRole, resolved, commonVars, reduxVars, catalogVars>>

CtxNext ==
  \/ \E s \in NullableSessions, e \in BOOLEAN : CtxInitialSession(s, e)
  \/ \E s \in NullableSessions : CtxAuthStateChange(s)
  \/ \E c \in BagToSet(calls) : CtxLookupAnswer(c)
  \/ \E c \in BagToSet(calls), t \in BOOLEAN : CtxHandleUserSessionSettle(c, t)
  \/ \E d \in CtxProfileInputs : CtxCreateUserProfile(d)
  \/ \E c \in BagToSet(calls) : CtxInsertAnswer(c)
  \/ \E c \in BagToSet(calls), t \in BOOLEAN : CtxCreateUserProfileSettle(c, t)
  \/ CtxLogin
  \/ \E c \in BagToSet(calls), ok \in BOOLEAN : CtxLoginSettle(c, ok)
  \/ CtxLogout
  \/ \E c \in BagToSet(calls) : CtxLogoutSettle(c)
  \/ Tick

CtxSpec == CtxInit /\ [][CtxNext]_vars

RevSpec == RevInit /\ [][CtxNext]_vars

-----------------------------------------------------------------------------
(* Properties of the Redux slice (Spec) *)

\* the thunk the last reduced action settled, if it settled one
Settled(type) == last.type = type /\ last.thunk # Null

\* the store's answer carried by the last settled thunk
LastResp == Val(Val(last.thunk).resp)

Unauthenticated(state) ==
  /\ state.user = Null
  /\ state.needsProfileSetup = FALSE
  /\ state.pendingUserData = Null
  /\ state.isAuthenticated = FALSE

RECURSIVE Copies(_, _)
Copies(bag, S) ==
  IF S = {} THEN 0
  ELSE LET t == CHOOSE x \in S : TRUE IN CopiesIn(t, bag) + Copies(bag, S \ {t})

\* lookups sent for an identity and not yet settled
LookupsInFlight(id) ==
  Copies(thunks, {t \in BagToSet(thunks) :
                    /\ t.kind = "handleUserSession"
                    /\ t.session # Null
                    /\ Val(t.session).id = id})

\* an error the specification files under "resource not found"
NotFoundError(e) == e.code \in {"PGRST116", "42P01"}

\* C2: when the lookup of handleUserSession fails with an error that is not
\* a not-found error, the state published for that call is NeedsProfile for
\* the session's identity: needsProfileSetup, pendingUserData of that
\* identity, and no user.
C2_LookupErrorPublishesNeedsProfile ==
  (/\ last.thunk # Null
   /\ Val(last.thunk).kind = "handleUserSession"
   /\ Val(last.thunk).resp # Null
   /\ LastResp.error # Null
   /\ ~NotFoundError(Val(LastResp.error)))
  => (/\ auth.needsProfileSetup
      /\ auth.pendingUserData # Null
      /\ Val(auth.pendingUserData).id = Val(Val(last.thunk).session).id
      /\ auth.user = Null)

\* C3: in every state a subscriber can observe, when loading is false and
\* isAuthenticated is true, exactly one of "has profile" (user set) and
\* "needs profile" (needsProfileSetup) holds.
C3_ExactlyOneOutcome ==
  (~auth.loading /\ auth.isAuthenticated)
  => ((auth.user # Null) # auth.needsProfileSetup)

\* C4: while a lookup for an identity is outstanding no second lookup is
\* issued for that identity.
C4_AtMostOneLookupPerIdentity ==
  \A id \in Ids : LookupsInFlight(id) <= 1

\* C5: once a sign-out has taken effect, and until a new session arrives,
\* the state stays Unauthenticated: a result that arrives late is discarded.
C5_LateResultDiscarded ==
  signedOut => Unauthenticated(auth)

\* C7: from whatever state, resolving a null session leaves user = null,
\* session = null, isAuthenticated = false, needsProfileSetup = false,
\* pendingUserData = null and loading = false.
C7_NullSessionYieldsUnauthenticated ==
  (Settled("auth/handleUserSession/fulfilled") /\ Val(last.thunk).session = Null)
  => (/\ Unauthenticated(auth)
      /\ auth.session = Null
      /\ auth.loading = FALSE)

\* C7 happens: a null session is resolved after a profile had been loaded
\* and while another call is still outstanding
C7_Witness ==
  /\ Settled("auth/handleUserSession/fulfilled")
  /\ Val(last.thunk).session = Null
  /\ thunks # EmptyBag
  /\ \E id \in Ids : db[id] # Null

Present(x) == x # Undef /\ Len(x) > 0

\* the display name the specification prescribes for a pending identity
ExpectedPendingName(s) ==
  IF Present(s.full_name) THEN s.full_name
  ELSE IF Present(s.name) THEN s.name
  ELSE IF Present(s.email) /\ Present(SplitAt0(s.email)) THEN SplitAt0(s.email)
  ELSE <<"U", "s", "e", "r">>

\* C9: for a signed-in identity with no profile row, the resolver publishes
\* NeedsProfile whose pending id and email are the identity's (an absent
\* email is the empty string), whose name is the first present (non-empty)
\* of full_name, name, the email's local part and "User", and whose avatar
\* is the first present of avatar_url and picture, else absent.
C9_PendingFromProviderMetadata ==
  (/\ Settled("auth/handleUserSession/fulfilled")
   /\ Val(last.thunk).resp # Null
   /\ LastResp.error = Some(NoRowsError))
  => LET s == Val(Val(last.thunk).session)
         p == Val(auth.pendingUserData)
     IN /\ auth.needsProfileSetup
        /\ auth.user = Null
        /\ auth.pendingUserData # Null
        /\ p.id = s.id
        /\ p.email = (IF Present(s.email) THEN s.email ELSE <<>>)
        /\ p.name = ExpectedPendingName(s)
        /\ IF Present(s.avatar_url) THEN p.avatar = s.avatar_url
           ELSE IF Present(s.picture) THEN p.avatar = s.picture
           ELSE ~Present(p.avatar)

\* C9 happens: a pending identity named after the email's local part,
\* the provider having given an empty full_name and no name
C9_Witness ==
  /\ Settled("auth/handleUserSession/fulfilled")
  /\ Val(last.thunk).resp # Null
  /\ LastResp.error = Some(NoRowsError)
  /\ Val(Val(last.thunk).session).full_name = <<>>
  /\ auth.pendingUserData # Null
  /\ Val(auth.pendingUserData).name = <<"a">>

\* C10: when the insert of completeProfileSetup succeeds, the published user
\* is the row the store echoed, field by field, and the same publish clears
\* needsProfileSetup and pendingUserData.
C10_InsertEchoBecomesUser ==
  Settled("auth/completeProfileSetup/fulfilled")
  => LET r == Val(LastResp.data)
         u == Val(auth.user)
     IN /\ auth.user # Null
        /\ u.id = r.id /\ u.name = r.name /\ u.email = r.email
        /\ u.role = r.role /\ u.avatar = r.avatar
        /\ u.rating = r.rating /\ u.reviewCount = r.review_count
        /\ db[r.id] = Some(r)
        /\ auth.needsProfileSetup = FALSE
        /\ auth.pendingUserData = Null

\* C10 happens: the echoed name differs from the submitted one
C10_Witness ==
  /\ Settled("auth/completeProfileSetup/fulfilled")
  /\ Val(Val(last.thunk).data).name = <<"a", " ">>
  /\ auth.user # Null
  /\ Val(auth.user).name = <<"a">>

\* the fields that say which of Unauthenticated, NeedsProfile and Resolved
\* is published
Resolution(state) ==
  <<state.user, state.needsProfileSetup, state.pendingUserData>>

\* this step starts thunk t: its `pending` action is reduced
Starts(t) == thunks' = Add(thunks, t)

\* this step settles thunk t by reducing the action `type`
Reduces(type, t) ==
  /\ BagIn(t, thunks)
  /\ thunks' = Remove(thunks, t)
  /\ last' = Action(type, Some(t))

C12_PreconditionFailureLeavesState ==
  [][/\ \A t \in BagToSet(thunks') :
          (Starts(t) /\ t.kind = "completeProfileSetup" /\ auth.pendingUserData = Null)
          => (t.stage = "ready" /\ auth' = auth)
     /\ \A t \in BagToSet(thunks) :
          (/\ t.kind = "completeProfileSetup" /\ t.pending = Null
           /\ BagIn(t, thunks) /\ thunks' = Remove(thunks, t))
          => /\ last'.type = "auth/completeProfileSetup/rejected"
             /\ Resolution(auth') = Resolution(auth)
             /\ auth'.error = auth.error]_vars

\* a resolve or a completeProfileSetup has started and has not finished
CallInFlight ==
  \E t \in BagToSet(thunks) : t.kind \in {"handleUserSession", "completeProfileSetup"}

\* C13: a resolve or completeProfileSetup that has started (loading = true)
\* leads to loading = false, whether or not the profile store ever answers.
C13_CallsFinish ==
  (CallInFlight /\ auth.loading) ~> ~auth.loading

\* C14: in every state a subscriber can observe, needsProfileSetup is true
\* exactly when pendingUserData is not null.
C14_FlagIffPendingData ==
  auth.needsProfileSetup <=> (auth.pendingUserData # Null)

\* C14 happens: a resolve starts while the setup form is up, and the flag
\* and the pending data are cleared in the same publish
C14_Witness ==
  /\ last.type = "auth/handleUserSession/pending"
  /\ \E t \in BagToSet(thunks) : t.kind = "completeProfileSetup" /\ t.pending # Null
  /\ auth.needsProfileSetup = FALSE
  /\ auth.pendingUserData = Null

\* C15: when a session that is already resolved (Resolved or NeedsProfile
\* published for its identity, nothing in flight, loading false) is resolved
\* again, the start of the second call changes none of user,
\* needsProfileSetup and pendingUserData: a subscriber sees no intermediate
\* state.
C15_ResolveAgainNoFlicker ==
  [][(/\ cb # Null /\ Val(cb) # Null /\ cb' = Null
      /\ thunks = EmptyBag
      /\ ~auth.loading
      /\ auth.session = Val(cb)
      /\ \/ auth.user # Null /\ Val(auth.user).id = Val(Val(cb)).id
         \/ /\ auth.needsProfileSetup /\ auth.pendingUserData # Null
            /\ Val(auth.pendingUserData).id = Val(Val(cb)).id)
     => Resolution(auth') = Resolution(auth)]_vars

\* C16: once a completeProfileSetup(name, role) has succeeded for an
\* identity, a resolve of that identity whose lookup the store answers
\* publishes Resolved with the submitted name, trimmed, and the submitted
\* role.
C16_RoundTrip ==
  (/\ Settled("auth/handleUserSession/fulfilled")
   /\ submitted # Null
   /\ Val(last.thunk).session # Null
   /\ Val(Val(last.thunk).session).id = Val(submitted).id
   /\ LastResp.error = Null)
  => /\ auth.user # Null
     /\ Val(auth.user).id = Val(submitted).id
     /\ Val(auth.user).name = Trim(Val(submitted).name)
     /\ Val(auth.user).role = Val(submitted).role
     /\ auth.needsProfileSetup = FALSE
     /\ auth.pendingUserData = Null

\* C16 happens: "a " was submitted with role owner, and a later resolve
\* found the row
C16_Witness ==
  /\ Settled("auth/handleUserSession/fulfilled")
  /\ submitted # Null
  /\ Val(submitted).name = <<"a", " ">>
  /\ Val(submitted).role = "owner"
  /\ Val(last.thunk).session # Null
  /\ LastResp.error = Null
  /\ auth.user # Null
  /\ Val(auth.user).name = <<"a">>

\* C16 happens for the other role
C16_WitnessCustomer ==
  /\ Settled("auth/handleUserSession/fulfilled")
  /\ submitted # Null
  /\ Val(submitted).role = "customer"
  /\ Val(last.thunk).session # Null
  /\ LastResp.error = Null
  /\ auth.user # Null

\* C17: when a logout has finished, whatever signOut returned, the state is
\* Unauthenticated: no user, no session, isAuthenticated, needsProfileSetup
\* and loading false, no pending data.
C17_LogoutEndsUnauthenticated ==
  (Settled("auth/logout/fulfilled") \/ Settled("auth/logout/rejected"))
  => (/\ Unauthenticated(auth)
      /\ auth.session = Null
      /\ auth.loading = FALSE)

\* C18: the row a completeProfileSetup inserted has the pending id and
\* email, the submitted name trimmed, the chosen role, rating 5 and no
\* reviews, and the pending avatar when there is one; an avatar is generated
\* only when there is none.
C18_InsertedRow ==
  Settled("auth/completeProfileSetup/fulfilled")
  => LET t == Val(last.thunk)
         p == Val(t.pending)
         d == Val(t.data)
         r == Val(LastResp.data)
     IN /\ r.id = p.id
        /\ r.name = Trim(d.name)
        /\ r.email = p.email
        /\ r.role = d.role
        /\ r.rating = 5
        /\ r.review_count = 0
        /\ IF Present(p.avatar) THEN r.avatar = p.avatar
                                ELSE Present(r.avatar)

\* C19: no insert is sent for a submission whose name is empty once trimmed.
C19_EmptyNameSendsNoInsert ==
  \A t \in BagToSet(thunks) :
    (t.kind = "completeProfileSetup" /\ Trim(Val(t.data).name) = <<>>)
    => t.stage \notin {"sent", "answered"}

\* C20: a lookup error of the not-found class (a missing table included) is
\* handled as "no row": NeedsProfile is published with the pending identity
\* a no-row answer gives.
C20_NotFoundClassIsNoRow ==
  (/\ last.thunk # Null
   /\ Val(last.thunk).kind = "handleUserSession"
   /\ Val(last.thunk).resp # Null
   /\ LastResp.error # Null
   /\ NotFoundError(Val(LastResp.error)))
  => (/\ auth.needsProfileSetup
      /\ auth.user = Null
      /\ auth.pendingUserData = Some(PendingData(Val(Val(last.thunk).session))))

-----------------------------------------------------------------------------
(* Properties of the context resolver (CtxSpec, RevSpec) *)

\* C1: a published user always has the role of a profile-store row of that
\* identity; no path publishes a user with a guessed role.
C1_PublishedRoleFromStore ==
  ctx.user # Null
  => LET u == Val(ctx.user) IN db[u.id] # Null /\ Val(db[u.id]).role = u.role

\* C6: once Resolved has been published for an identity, NeedsProfile is not
\* published for it until a sign-out.
C6_ResolvedNeverBackToNeedsProfile ==
  ~(/\ ctx.needsProfileSetup
    /\ ctx.pendingUserData # Null
    /\ Val(ctx.pendingUserData).id \in resolved)

\* C8: the published user equals the identity's row, field by field (a row
\* is written once and never changed, so the row a lookup returned is the
\* row the store holds).
C8_UserEqualsRow ==
  ctx.user # Null
  => LET u == Val(ctx.user) IN
       /\ db[u.id] # Null
       /\ LET r == Val(db[u.id]) IN
            /\ u.id = r.id /\ u.name = r.name /\ u.email = r.email
            /\ u.role = r.role /\ u.avatar = r.avatar
            /\ u.rating = r.rating /\ u.reviewCount = r.review_count

-----------------------------------------------------------------------------
(* The listing filter: store/slices/campersSlice.ts (dispatched from       *)
(* components/AppContent.tsx) and the component-state copy in App.tsx.     *)
(* A listing keeps the fields the filter reads.                            *)

UpperCase ==
  <<"A", "B", "C", "D", "E", "F", "G", "H", "I", "J", "K", "L", "M",
    "N", "O", "P", "Q", "R", "S", "T", "U", "V", "W", "X", "Y", "Z">>

LowerCase ==
  <<"a", "b", "c", "d", "e", "f", "g", "h", "i", "j", "k", "l", "m",
    "n", "o", "p", "q", "r", "s", "t", "u", "v", "w", "x", "y", "z">>

UpperToLower ==
  [c \in {UpperCase[i] : i \in DOMAIN UpperCase} |->
     LowerCase[CHOOSE i \in DOMAIN UpperCase : UpperCase[i] = c]]

LowerChar(c) == IF c \in DOMAIN UpperToLower THEN UpperToLower[c] ELSE c

\* String.prototype.toLowerCase
toLowerCase(s) == [i \in 1..Len(s) |-> LowerChar(s[i])]

\* String.prototype.includes
StrIncludes(s, sub) ==
  \/ sub = <<>>
  \/ \E i \in 1..(Len(s) - Len(sub) + 1) :
       s[i] = sub[1] /\ SubSeq(s, i, i + Len(sub) - 1) = sub

\* data/mockData.ts
mockCampers ==
  <<
    [id |-> "1",
     title |->
       <<"L", "u", "x", "u", "r", "y", " ", "C", "l", "a", "s", "s", " ",
         "A", " ", "M", "o", "t", "o", "r", "h", "o", "m", "e">>,
     description |->
       <<"S", "p", "a", "c", "i", "o", "u", "s", " ", "a", "n", "d", " ",
         "c", "o", "m", "f", "o", "r", "t", "a", "b", "l", "e", " ", "m",
         "o", "t", "o", "r", "h", "o", "m", "e", " ", "p", "e", "r", "f",
         "e", "c", "t", " ", "f", "o", "r", " ", "f", "a", "m", "i", "l",
         "y", " ", "a", "d", "v", "e", "n", "t", "u", "r", "e", "s", ".",
         " ", "F", "e", "a", "t", "u", "r", "e", "s", " ", "a", " ", "f",
         "u", "l", "l", " ", "k", "i", "t", "c", "h", "e", "n", ",", " ",
         "b", "a", "t", "h", "r", "o", "o", "m", ",", " ", "a", "n", "d",
         " ", "s", "l", "e", "e", "p", "i", "n", "g", " ", "f", "o", "r",
         " ", "6", ".">>,
     price |-> 150,
     location |->
       <<"P", "o", "r", "t", "l", "a", "n", "d", ",", " ", "O", "r", "e",
         "g", "o", "n">>,
     capacity |-> 6,
     type |-> "motorhome",
     features |->
       [kitchen |-> TRUE, bathroom |-> TRUE, heating |-> TRUE,
        airConditioning |-> TRUE, wifi |-> TRUE, solar |-> TRUE,
        generator |-> TRUE, awning |-> TRUE]],
    [id |-> "2",
     title |->
       <<"C", "o", "z", "y", " ", "T", "r", "a", "v", "e", "l", " ", "T",
         "r", "a", "i", "l", "e", "r">>,
     description |->
       <<"P", "e", "r", "f", "e", "c", "t", " ", "f", "o", "r", " ", "c",
         "o", "u", "p", "l", "e", "s", " ", "o", "r", " ", "s", "m", "a",
         "l", "l", " ", "f", "a", "m", "i", "l", "i", "e", "s", ".", " ",
         "E", "a", "s", "y", " ", "t", "o", " ", "t", "o", "w", " ", "a",
         "n", "d", " ", "p", "a", "r", "k", ",", " ", "w", "i", "t", "h",
         " ", "a", "l", "l", " ", "t", "h", "e", " ", "e", "s", "s", "e",
         "n", "t", "i", "a", "l", "s", " ", "f", "o", "r", " ", "a", " ",
         "g", "r", "e", "a", "t", " ", "c", "a", "m", "p", "i", "n", "g",
         " ", "e", "x", "p", "e", "r", "i", "e", "n", "c", "e", ".">>,
     price |-> 85,
     location |->
       <<"D", "e", "n", "v", "e", "r", ",", " ", "C", "o", "l", "o", "r",
         "a", "d", "o">>,
     capacity |-> 4,
     type |-> "trailer",
     features |->
       [kitchen |-> TRUE, bathroom |-> TRUE, heating |-> TRUE,
        airConditioning |-> FALSE, wifi |-> FALSE, solar |-> FALSE,
        generator |-> FALSE, awning |-> TRUE]],
    [id |-> "3",
     title |->
       <<"A", "d", "v", "e", "n", "t", "u", "r", "e", " ", "V", "a", "n">>,
     description |->
       <<"C", "o", "n", "v", "e", "r", "t", "e", "d", " ", "v", "a", "n",
         " ", "p", "e", "r", "f", "e", "c", "t", " ", "f", "o", "r", " ",
         "o", "f", "f", "-", "g", "r", "i", "d", " ", "a", "d", "v", "e",
         "n", "t", "u", "r", "e", "s", ".", " ", "C", "o", "m", "p", "a",
         "c", "t", " ", "b", "u", "t", " ", "w", "e", "l", "l", "-", "e",
         "q", "u", "i", "p", "p", "e", "d", " ", "w", "i", "t", "h", " ",
         "s", "o", "l", "a", "r", " ", "p", "o", "w", "e", "r", " ", "a",
         "n", "d", " ", "o", "u", "t", "d", "o", "o", "r", " ", "k", "i",
         "t", "c", "h", "e", "n", ".">>,
     price |-> 120,
     location |->
       <<"A", "u", "s", "t", "i", "n", ",", " ", "T", "e", "x", "a", "s">>,
     capacity |-> 2,
     type |-> "van",
     features |->
       [kitchen |-> TRUE, bathroom |-> FALSE, heating |-> TRUE,
        airConditioning |-> FALSE, wifi |-> TRUE, solar |-> TRUE,
        generator |-> FALSE, awning |-> FALSE]],
    [id |-> "4",
     title |->
       <<"F", "a", "m", "i", "l", "y", " ", "M", "o", "t", "o", "r", "h",
         "o", "m", "e">>,
     description |->
       <<"S", "p", "a", "c", "i", "o", "u", "s", " ", "m", "o", "t", "o",
         "r", "h", "o", "m", "e", " ", "i", "d", "e", "a", "l", " ", "f",
         "o", "r", " ", "f", "a", "m", "i", "l", "y", " ", "r", "o", "a",
         "d", " ", "t", "r", "i", "p", "s", ".", " ", "S", "l", "e", "e",
         "p", "s", " ", "8", " ", "c", "o", "m", "f", "o", "r", "t", "a",
         "b", "l", "y", " ", "w", "i", "t", "h", " ", "b", "u", "n", "k",
         " ", "b", "e", "d", "s", " ", "a", "n", "d", " ", "a", " ", "c",
         "o", "n", "v", "e", "r", "t", "i", "b", "l", "e", " ", "d", "i",
         "n", "e", "t", "t", "e", ".">>,
     price |-> 180,
     location |->
       <<"P", "h", "o", "e", "n", "i", "x", ",", " ", "A", "r", "i", "z",
         "o", "n", "a">>,
     capacity |-> 8,
     type |-> "motorhome",
     features |->
       [kitchen |-> TRUE, bathroom |-> TRUE, heating |-> TRUE,
        airConditioning |-> TRUE, wifi |-> TRUE, solar |-> FALSE,
        generator |-> TRUE, awning |-> TRUE]],
    [id |-> "5",
     title |->
       <<"C", "o", "m", "p", "a", "c", "t", " ", "P", "o", "p", "-", "u",
         "p", " ", "T", "r", "a", "i", "l", "e", "r">>,
     description |->
       <<"L", "i", "g", "h", "t", "w", "e", "i", "g", "h", "t", " ", "a",
         "n", "d", " ", "e", "a", "s", "y", " ", "t", "o", " ", "t", "o",
         "w", " ", "p", "o", "p", "-", "u", "p", " ", "t", "r", "a", "i",
         "l", "e", "r", ".", " ", "P", "e", "r", "f", "e", "c", "t", " ",
         "f", "o", "r", " ", "c", "a", "m", "p", "i", "n", "g", " ", "e",
         "n", "t", "h", "u", "s", "i", "a", "s", "t", "s", " ", "w", "h",
         "o", " ", "w", "a", "n", "t", " ", "c", "o", "m", "f", "o", "r",
         "t", " ", "w", "i", "t", "h", "o", "u", "t", " ", "t", "h", "e",
         " ", "b", "u", "l", "k", ".">>,
     price |-> 60,
     location |->
       <<"S", "e", "a", "t", "t", "l", "e", ",", " ", "W", "a", "s", "h",
         "i", "n", "g", "t", "o", "n">>,
     capacity |-> 4,
     type |-> "popup",
     features |->
       [kitchen |-> TRUE, bathroom |-> FALSE, heating |-> TRUE,
        airConditioning |-> FALSE, wifi |-> FALSE, solar |-> FALSE,
        generator |-> FALSE, awning |-> TRUE]],
    [id |-> "6",
     title |->
       <<"L", "u", "x", "u", "r", "y", " ", "C", "l", "a", "s", "s", " ",
         "C", " ", "M", "o", "t", "o", "r", "h", "o", "m", "e">>,
     description |->
       <<"P", "r", "e", "m", "i", "u", "m", " ", "m", "o", "t", "o", "r",
         "h", "o", "m", "e", " ", "w", "i", "t", "h", " ", "h", "i", "g",
         "h", "-", "e", "n", "d", " ", "f", "i", "n", "i", "s", "h", "e",
         "s", " ", "a", "n", "d", " ", "a", "m", "e", "n", "i", "t", "i",
         "e", "s", ".", " ", "P", "e", "r", "f", "e", "c", "t", " ", "f",
         "o", "r", " ", "t", "h", "o", "s", "e", " ", "w", "h", "o", " ",
         "w", "a", "n", "t", " ", "t", "o", " ", "t", "r", "a", "v", "e",
         "l", " ", "i", "n", " ", "s", "t", "y", "l", "e", " ", "a", "n",
         "d", " ", "c", "o", "m", "f", "o", "r", "t", ".">>,
     price |-> 200,
     location |->
       <<"S", "a", "n", " ", "F", "r", "a", "n", "c", "i", "s", "c", "o",
         ",", " ", "C", "a", "l", "i", "f", "o", "r", "n", "i", "a">>,
     capacity |-> 6,
     type |-> "motorhome",
     features |->
       [kitchen |-> TRUE, bathroom |-> TRUE, heating |-> TRUE,
        airConditioning |-> TRUE, wifi |-> TRUE, solar |-> TRUE,
        generator |-> TRUE, awning |-> TRUE]]
  >>

FilterOptions(priceRange, capacity, type, features) ==
  [priceRange |-> priceRange, capacity |-> capacity, type |-> type,
   features |-> features]

campersInitialState ==
  [allCampers |-> mockCampers,
   filteredCampers |-> mockCampers,
   searchQuery |-> <<>>,
   favorites |-> <<>>,
   filters |-> FilterOptions(<<0, 500>>, 0, "", <<>>)]

\* camper.location.toLowerCase().includes(query.toLowerCase()) || ...title
\* ... || ...description ...
MatchesQuery(camper, query) ==
  \/ StrIncludes(toLowerCase(camper.location), toLowerCase(query))
  \/ StrIncludes(toLowerCase(camper.title), toLowerCase(query))
  \/ StrIncludes(toLowerCase(camper.description), toLowerCase(query))

\* // Apply search query
bySearchQuery(list, query) ==
  IF Trim(query) # <<>>
  THEN SelectSeq(list, LAMBDA camper : MatchesQuery(camper, query))
  ELSE list

\* // Apply price range
byPriceRange(list, filters) ==
  SelectSeq(list, LAMBDA camper :
    /\ camper.price >= filters.priceRange[1]
    /\ camper.price <= filters.priceRange[2])

\* // Apply capacity
byCapacity_strict(list, filters) ==
  IF filters.capacity > 0
  THEN SelectSeq(list, LAMBDA camper : camper.capacity > filters.capacity)
  ELSE list
byCapacity(list, filters) ==
  IF filters.capacity > 0
  THEN SelectSeq(list, LAMBDA camper : camper.capacity >= filters.capacity)
  ELSE list

\* // Apply type
byType(list, filters) ==
  IF filters.type # ""
  THEN SelectSeq(list, LAMBDA camper : camper.type = filters.type)
  ELSE list

\* // Apply features
byFeatures(list, filters) ==
  IF Len(filters.features) > 0
  THEN SelectSeq(list, LAMBDA camper :
         \A i \in DOMAIN filters.features :
           camper.features[filters.features[i]])
  ELSE list

\* the applyFilters case reducer
applyFilters(state) ==
  LET filtered ==
        byFeatures(
          byType(
            byCapacity(
              byPriceRange(
                bySearchQuery(state.allCampers, state.searchQuery),
                state.filters),
              state.filters),
            state.filters),
          state.filters)
  IN [state EXCEPT !.filteredCampers = filtered]

setSearchQuery_noRefilter(state, payload) ==
  [state EXCEPT !.searchQuery = payload]
setSearchQuery(state, payload) ==
  applyFilters([state EXCEPT !.searchQuery = payload])

setFilters(state, payload) ==
  applyFilters([state EXCEPT !.filters = payload])

\* favorites.includes(camperId)
IsFavorite(favorites, camperId) ==
  \E i \in DOMAIN favorites : favorites[i] = camperId

\* the toggle both implementations use
Toggled(favorites, camperId) ==
  IF IsFavorite(favorites, camperId)
  THEN SelectSeq(favorites, LAMBDA id : id # camperId)
  ELSE Append(favorites, camperId)

toggleFavorite(state, payload) ==
  [state EXCEPT !.favorites = Toggled(state.favorites, payload)]

\* what a visitor types into the search box of the header
Queries ==
  { <<>>,
    <<" ", " ">>,
    <<"a", "u", "s", "t", "i", "n">>,
    <<"V", "A", "N">>,
    <<"z", "z">> }

\* what the filter sidebar can be set to
FilterInputs ==
  { FilterOptions(p, c, t, f) :
      p \in {<<0, 500>>, <<100, 180>>},
      c \in {0, 4},
      t \in {"", "van", "motorhome"},
      f \in {<<>>, <<"solar">>, <<"bathroom", "wifi">>} }

FavoriteInputs == {"3"}

\* the session resolvers do not run
AuthOff ==
  /\ idp = {}
  /\ db = [i \in Ids |-> Null]
  /\ InitRedux
  /\ CtxOff

CampersInit ==
  /\ AuthOff
  /\ campers = campersInitialState
  /\ app = <<>>

\* AppContent.handleSearch: dispatch(setSearchQuery(query))
SetSearchQuery(query) ==
  /\ campers # <<>>
  /\ campers' = setSearchQuery(campers, query)
  /\ UNCHANGED <<app, commonVars, reduxVars, ctxVars>>

\* AppContent.handleFiltersChange: dispatch(setFilters(newFilters))
SetFilters(newFilters) ==
  /\ campers # <<>>
  /\ campers' = setFilters(campers, newFilters)
  /\ UNCHANGED <<app, commonVars, reduxVars, ctxVars>>

\* AppContent.handleFavorite: dispatch(toggleFavorite(camperId))
ToggleFavorite(camperId) ==
  /\ campers # <<>>
  /\ campers' = toggleFavorite(campers, camperId)
  /\ UNCHANGED <<app, commonVars, reduxVars, ctxVars>>

CampersNext ==
  \/ \E query \in Queries : SetSearchQuery(query)
  \/ \E newFilters \in FilterInputs : SetFilters(newFilters)
  \/ \E camperId \in FavoriteInputs : ToggleFavorite(camperId)

CampersSpec == CampersInit /\ [][CampersNext]_vars

\* a listing whose texts hold no blank, and a catalog that repeats listings
\* out of id order
CompactListing ==
  [id |-> "7",
   title |-> <<"V", "a", "n">>,
   description |-> <<>>,
   price |-> 100,
   location |-> <<"A", "u", "s", "t", "i", "n">>,
   capacity |-> 4,
   type |-> "van",
   features |->
     [kitchen |-> TRUE, bathroom |-> TRUE, heating |-> FALSE,
      airConditioning |-> FALSE, wifi |-> TRUE, solar |-> FALSE,
      generator |-> FALSE, awning |-> FALSE]]

Catalogs ==
  { mockCampers,
    <<>>,
    <<mockCampers[6], CompactListing, mockCampers[3], CompactListing,
      mockCampers[1]>> }

\* applyFilters as a function of catalog, query and criteria
FilterInit ==
  /\ AuthOff
  /\ campers \in {[campersInitialState EXCEPT !.allCampers = catalog,
                                               !.filteredCampers = catalog] :
                    catalog \in Catalogs}
  /\ app = <<>>

FilterSpec == FilterInit /\ [][CampersNext]_vars

\* App.tsx
appInitialState ==
  [campers |-> mockCampers,
   searchQuery |-> <<>>,
   favorites |-> <<>>,
   filters |-> FilterOptions(<<0, 500>>, 0, "", <<>>)]

\* App.handleSearch
handleSearch(state, query) ==
  [state EXCEPT
     !.searchQuery = query,
     !.campers = IF Trim(query) # <<>>
                 THEN SelectSeq(mockCampers,
                                LAMBDA camper : MatchesQuery(camper, query))
                 ELSE mockCampers]

\* App.handleFiltersChange; its five steps are those of applyFilters, on
\* mockCampers, the rendered searchQuery and newFilters
handleFiltersChange(state, newFilters) ==
  LET filtered ==
        byFeatures(
          byType(
            byCapacity(
              byPriceRange(
                bySearchQuery(mockCampers, state.searchQuery),
                newFilters),
              newFilters),
            newFilters),
          newFilters)
  IN [state EXCEPT !.filters = newFilters, !.campers = filtered]

\* App.handleFavorite
handleFavorite(state, camperId) ==
  [state EXCEPT !.favorites = Toggled(state.favorites, camperId)]

AppInit ==
  /\ AuthOff
  /\ campers = <<>>
  /\ app = appInitialState

HandleSearch(query) ==
  /\ app # <<>>
  /\ app' = handleSearch(app, query)
  /\ UNCHANGED <<campers, commonVars, reduxVars, ctxVars>>

HandleFiltersChange(newFilters) ==
  /\ app # <<>>
  /\ app' = handleFiltersChange(app, newFilters)
  /\ UNCHANGED <<campers, commonVars, reduxVars, ctxVars>>

HandleFavorite(camperId) ==
  /\ app # <<>>
  /\ app' = handleFavorite(app, camperId)
  /\ UNCHANGED <<campers, commonVars, reduxVars, ctxVars>>

AppNext ==
  \/ \E query \in Queries : HandleSearch(query)
  \/ \E newFilters \in FilterInputs : HandleFiltersChange(newFilters)
  \/ \E camperId \in FavoriteInputs : HandleFavorite(camperId)

AppSpec == AppInit /\ [][AppNext]_vars

-----------------------------------------------------------------------------
(* Properties of the listing filter (FilterSpec, CampersSpec, AppSpec) *)

\* price within [min, max], capacity, type and features as the
\* specification states them
MeetsCriteria(camper, filters) ==
  /\ filters.priceRange[1] <= camper.price
  /\ camper.price <= filters.priceRange[2]
  /\ (filters.capacity = 0 \/ camper.capacity >= filters.capacity)
  /\ (filters.type = "" \/ camper.type = filters.type)
  /\ \A i \in DOMAIN filters.features : camper.features[filters.features[i]]

\* query is a case-insensitive substring of location, title or description
QueryFound(camper, query) ==
  \E text \in {camper.location, camper.title, camper.description} :
    StrIncludes(toLowerCase(text), toLowerCase(query))

\* the subsequence of the catalog, in input order, of the listings that
\* satisfy every predicate, the text predicate waived for an empty query
ConjunctiveFilter(catalog, query, filters) ==
  SelectSeq(catalog, LAMBDA camper :
    /\ (query = <<>> \/ QueryFound(camper, query))
    /\ MeetsCriteria(camper, filters))

\* the same, the text predicate waived for a query that is blank
BlankTolerantFilter(catalog, query, filters) ==
  SelectSeq(catalog, LAMBDA camper :
    /\ (Trim(query) = <<>> \/ QueryFound(camper, query))
    /\ MeetsCriteria(camper, filters))

\* C21 as stated: applyFilters sets filteredCampers to the conjunctive
\* filter of allCampers, the text predicate waived only for the empty query.
C21_EmptyQueryOnly ==
  campers # <<>>
  => applyFilters(campers).filteredCampers
       = ConjunctiveFilter(campers.allCampers, campers.searchQuery,
                           campers.filters)

\* C21: for every catalog, query and criteria, applyFilters sets
\* filteredCampers to exactly the subsequence of allCampers, in input order,
\* of the listings that satisfy all of: query blank (empty or spaces only) or
\* a case-insensitive substring of location, title or description; price
\* within [min, max]; capacity filter 0 or capacity >= it; type unset or
\* equal; every required feature flag true.
C21_ApplyFilters ==
  campers # <<>>
  => applyFilters(campers).filteredCampers
       = BlankTolerantFilter(campers.allCampers, campers.searchQuery,
                             campers.filters)

\* a catalog with repeated listings, filtered by text and by capacity to a
\* proper part of it that keeps a listing at the capacity bound
C21_Witness ==
  /\ campers # <<>>
  /\ campers.allCampers # mockCampers
  /\ Trim(campers.searchQuery) # <<>>
  /\ campers.filters.capacity = 4
  /\ campers.filteredCampers = <<CompactListing, CompactListing>>

\* C22 as stated: filteredCampers is the conjunctive filter by the current
\* searchQuery and filters, the text predicate waived only for the empty
\* query, and allCampers is the catalog.
C22_NeverStaleEmptyQueryOnly ==
  campers # <<>>
  => /\ campers.allCampers = mockCampers
     /\ campers.filteredCampers
          = ConjunctiveFilter(mockCampers, campers.searchQuery,
                              campers.filters)

\* C22: after any sequence of setSearchQuery, setFilters and toggleFavorite
\* the slice's filteredCampers is the conjunctive filter of allCampers by
\* the current searchQuery (waived when blank) and the current filters, and
\* allCampers is still the catalog.
C22_NeverStale ==
  campers # <<>>
  => /\ campers.allCampers = mockCampers
     /\ campers.filteredCampers
          = BlankTolerantFilter(campers.allCampers, campers.searchQuery,
                                campers.filters)

\* a query, a filter edit and a favourite later, one listing is visible
C22_Witness ==
  /\ campers # <<>>
  /\ campers.searchQuery = <<"V", "A", "N">>
  /\ campers.filters.features = <<"solar">>
  /\ campers.favorites = <<"3">>
  /\ campers.filteredCampers = <<mockCampers[3]>>

\* C24: in App.tsx, after any sequence of searches and filter edits the
\* visible list `campers` is the conjunctive filter of the catalog by the
\* current searchQuery (waived when blank) and the current filters.
C24_VisibleListIsFiltered ==
  app # <<>>
  => app.campers = BlankTolerantFilter(mockCampers, app.searchQuery,
                                       app.filters)

-----------------------------------------------------------------------------
(* The preferred-role hint and the default role of the setup form *)

\* AppContent.tsx, and the App of the context:
\* defaultRole={pendingUserData?.preferredRole || 'customer'}
defaultRole(pendingUserData) ==
  IF /\ pendingUserData # Null
     /\ "preferredRole" \in DOMAIN Val(pendingUserData)
     /\ Val(pendingUserData).preferredRole # "undefined"
  THEN Val(pendingUserData).preferredRole
  ELSE "customer"

\* the Redux resolver in a browser whose localStorage holds a valid hint,
\* left by a visitor who chose 'owner' before authenticating
HintInit ==
  /\ InitStore(CtxSessions, InitialRows)
  /\ InitRedux
  /\ variant = "none"
  /\ ctx = <<>>
  /\ calls = EmptyBag
  /\ booted = FALSE
  /\ prefRole = Some(HintEntry("owner", 0))
  /\ now = 0
  /\ resolved = {}
  /\ CatalogOff

HintSpec == HintInit /\ [][Next]_vars

\* C23: while a valid preferred-role hint is stored and NeedsProfile is
\* published, the setup form's default role is the hinted role.
C23_HintBecomesDefaultRole ==
  (/\ auth.needsProfileSetup
   /\ auth.pendingUserData # Null
   /\ getPreferredRole # NoRole)
  => defaultRole(auth.pendingUserData) = getPreferredRole

\* the same for the context resolver
C23_CtxHintBecomesDefaultRole ==
  (/\ ctx.needsProfileSetup
   /\ ctx.pendingUserData # Null
   /\ getPreferredRole # NoRole)
  => defaultRole(ctx.pendingUserData) = getPreferredRole

\* what localStorage['preferredRole'] may be set to from outside the
\* provider: the hint a visitor's choice of role leaves, or a string that
\* is not JSON
StoredEntries == {HintEntry("owner", 0), CorruptEntry}

\* localStorage.setItem('preferredRole', ...) outside the provider
StorageWrite(entry) ==
  /\ ctx # <<>>
  /\ prefRole' = Some(entry)
  /\ UNCHANGED <<variant, ctx, calls, booted, now, resolved, commonVars,
                 reduxVars, catalogVars>>

StorageNext ==
  \/ CtxNext
  \/ \E entry \in StoredEntries : StorageWrite(entry)

\* the context resolver over a localStorage that is written while it runs
StorageSpec == CtxInit /\ [][StorageNext]_vars

\* a handleUserSession call that this step starts
CtxStarts(c) ==
  /\ c.kind = "handleUserSession"
  /\ c.stage = "sent"
  /\ CopiesIn(c, calls') > CopiesIn(c, calls)

\* a handleUserSession call that this step settles
CtxSettles(c) ==
  /\ c.kind = "handleUserSession"
  /\ CopiesIn(c, calls) > CopiesIn(c, calls')

\* the stored entry parses and the clock is not past its expiry
ValidHint ==
  /\ prefRole # Null
  /\ Val(prefRole).json
  /\ ~(now > Val(prefRole).expiry)

\* C27: the read of the hint that starts a handleUserSession yields the
\* stored role only if the entry parses and the clock is not past its
\* expiry; otherwise it yields null and a stored entry is removed; and a
\* preferredRole that is published in pendingUserData is the one such a
\* read yielded, so a hint found expired never reaches it.
C27_HintValidWhenRead ==
  [][/\ \A c \in BagToSet(calls') :
          CtxStarts(c)
          => /\ c.pref = (IF ValidHint THEN Val(prefRole).role ELSE NoRole)
             /\ (~ValidHint => prefRole' = Null)
             /\ (ValidHint => prefRole' = prefRole)
     /\ (/\ ctx'.pendingUserData # Null
         /\ ctx'.pendingUserData # ctx.pendingUserData
         /\ Val(ctx'.pendingUserData).preferredRole # "undefined")
        => \E c \in BagToSet(calls) :
             /\ CtxSettles(c)
             /\ c.pref = Val(ctx'.pendingUserData).preferredRole
    ]_vars

\* the setup form is open with the hinted role, the hint has since been
\* found expired or unparsable and removed by the read of a second
\* handleUserSession, whose lookup is in flight without a role
C27_Witness ==
  /\ ctx # <<>>
  /\ ctx.pendingUserData # Null
  /\ Val(ctx.pendingUserData).preferredRole = "owner"
  /\ prefRole = Null
  /\ \E c \in BagToSet(calls) :
       c.kind = "handleUserSession" /\ c.stage = "sent" /\ c.pref = NoRole

\* C25: a handleUserSession run that starts after createUserProfile has
\* succeeded for its identity (the justCreatedProfile flag is set and the
\* created user is published) does not set needsProfileSetup.
C25_NoModalAfterCreation ==
  [][\A c \in BagToSet(calls) :
       (CtxSettles(c) /\ c.created) => ~ctx'.needsProfileSetup]_vars

-----------------------------------------------------------------------------
(* register() of contexts/AuthContext.tsx *)

\* what the registration form submits; the e-mail is the new account's
RegisterInputs ==
  { [name |-> <<"a">>, role |-> "owner"],
    [name |-> <<>>, role |-> "customer"] }

\* the row register() inserts
RegisterRow(u, input) ==
  [id |-> u.id,
   name |-> Or(input.name, <<"U", "s", "e", "r">>),
   email |-> Or(u.email, <<>>),
   role |-> input.role,
   avatar |-> GeneratedAvatar(Or(input.name, <<"U", "s", "e", "r">>)),
   rating |-> 5, review_count |-> 0]

\* the user of the session signUp opens: options.data is its metadata
SignedUp(s, input) == Session(s.id, s.email, input.name, Undef, Undef, Undef)

\* register() up to `await supabase.auth.signUp(...)`
CtxRegister(input) ==
  /\ CtxRoom
  /\ ctx' = [ctx EXCEPT !.loading = TRUE]
  /\ calls' = Add(calls, Call("register", Null, NoRole, Some(input),
                              "signUp", Null, FALSE))
  /\ UNCHANGED <<variant, booted, prefRole, now, resolved, commonVars,
                 reduxVars, catalogVars>>

\* signUp answers.  Refused: loading ends and register returns.  Accepted,
\* for an account that is new: the provider opens a session, the
\* onAuthStateChange callback starts handleUserSession for it, and
\* register sends its insert.
CtxSignUpSettle(c, ok) ==
  /\ c.kind = "register" /\ c.stage = "signUp"
  /\ IF ~ok THEN
       /\ ctx' = [ctx EXCEPT !.loading = FALSE]
       /\ calls' = Remove(calls, c)
       /\ UNCHANGED prefRole
     ELSE
       /\ CtxRoom
       /\ ctx.session = Null
       /\ \E s \in idp :
            LET u == SignedUp(s, Val(c.req)) IN
              /\ db[s.id] = Null
              /\ ctx' = [ctx EXCEPT !.session = Some(u)]
              /\ calls' =
                   Add(Replace(calls, c,
                               [c EXCEPT !.stage = "insert",
                                         !.req = Some(RegisterRow(u, Val(c.req)))]),
                       Call("handleUserSession", Some(u), getPreferredRole,
                            Null, "sent", Null, FALSE))
              /\ prefRole' = prefRoleAfterGet
  /\ UNCHANGED <<variant, booted, now, resolved, commonVars, reduxVars,
                 catalogVars>>

\* the store answers register's insert
CtxRegisterInsertAnswer(c) ==
  /\ c.kind = "register" /\ c.stage = "insert"
  /\ LET row == Val(c.req)
         answered(r) == Replace(calls, c, [c EXCEPT !.stage = "answered",
                                                    !.resp = Some(r)])
     IN
       \/ /\ Conflicts(row)
          /\ calls' = answered(Response(Null, Some(ConflictError), FALSE))
          /\ db' = db
       \/ /\ ~Conflicts(row)
          /\ calls' = answered(Response(Null, Null, FALSE))
          /\ db' = [db EXCEPT ![row.id] = Some(row)]
       \/ /\ calls' = answered(Response(Null, Some(UnavailableError), FALSE))
          /\ db' = db
  /\ UNCHANGED <<idp, ctx, variant, booted, prefRole, now, resolved,
                 reduxVars, catalogVars>>

\* register resumes: with the answer, or with the 5 s timer's rejection
\* (the insert it sent may still reach the store); only an insert without
\* error sets justCreatedProfile, and loading ends in every case
CtxRegisterSettle(c, timedOut) ==
  /\ c.kind = "register"
  /\ (timedOut /\ c.stage = "insert") \/ c.stage = "answered"
  /\ IF timedOut THEN
       /\ ctx' = [ctx EXCEPT !.loading = FALSE]
       /\ calls' = IF c.stage = "insert"
                     THEN Replace(calls, c, [c EXCEPT !.kind = "abandonedInsert",
                                                      !.stage = "sent"])
                     ELSE Remove(calls, c)
     ELSE IF Val(c.resp).error # Null THEN
       /\ ctx' = [ctx EXCEPT !.loading = FALSE]
       /\ calls' = Remove(calls, c)
     ELSE
       /\ ctx' = [ctx EXCEPT !.justCreatedProfile = TRUE, !.loading = FALSE]
       /\ calls' = Remove(calls, c)
  /\ UNCHANGED <<variant, booted, prefRole, now, resolved, commonVars,
                 reduxVars, catalogVars>>

RegisterNext ==
  \/ CtxNext
  \/ \E input \in RegisterInputs : CtxRegister(input)
  \/ \E c \in BagToSet(calls), ok \in BOOLEAN : CtxSignUpSettle(c, ok)
  \/ \E c \in BagToSet(calls) : CtxRegisterInsertAnswer(c)
  \/ \E c \in BagToSet(calls), t \in BOOLEAN : CtxRegisterSettle(c, t)

\* a browser without a stored hint, a store without profiles
RegisterInit ==
  /\ CtxInit
  /\ prefRole = Null
  /\ \A i \in Ids : db[i] = Null

\* the context resolver with its registration form
RegisterSpec == RegisterInit /\ [][RegisterNext]_vars

\* C26: when register() has signed an identity up and its insert has
\* succeeded (justCreatedProfile is set), NeedsProfile is not published for
\* that identity.
C26_RegisteredNeverNeedsProfile ==
  ~(/\ ctx.justCreatedProfile
    /\ ctx.needsProfileSetup
    /\ ctx.pendingUserData # Null
    /\ db[Val(ctx.pendingUserData).id] # Null)

-----------------------------------------------------------------------------
(* Further properties of the Redux slice (Spec) *)

\* C30: in every state of the slice, isAuthenticated is true exactly when
\* session is not null, and a non-null user or a true needsProfileSetup
\* occurs only when session is not null.
C30_ProfileOnlyWithSession ==
  /\ auth.isAuthenticated <=> auth.session # Null
  /\ (auth.user # Null \/ auth.needsProfileSetup) => auth.session # Null

\* the first half of C30 on its own
C30_AuthenticatedIffSession == auth.isAuthenticated <=> auth.session # Null

\* the second half of C30 in the states in which nothing is in flight
C30_QuiescentProfileOnlyWithSession ==
  (thunks = EmptyBag /\ cb = Null)
  => ((auth.user # Null \/ auth.needsProfileSetup) => auth.session # Null)

\* C29: loading is true in every state in which a handleUserSession lookup
\* is in flight.
C29_LoadingWhileLookupInFlight ==
  (\E t \in BagToSet(thunks) :
     t.kind = "handleUserSession" /\ t.session # Null)
  => auth.loading
-----------------------------------------------------------------------------
(* Two identities in one browser profile *)

\* one account of each identity
TwoSessions ==
  { Session("u1", <<"a", "@", "x">>, <<"a", "b">>, <<"b">>, <<"p">>, <<"q">>),
    Session("u2", <<"b", "@", "x">>, Undef, <<>>, <<>>, <<"q">>) }

\* the identity provider issues sessions for two identities in this run:
\* AuthProvider's onAuthStateChange callback fires for each of them
TwoInit ==
  /\ idp = TwoSessions
  /\ db \in [Ids -> UNION {InitialRows[i] : i \in Ids}]
  /\ \A i \in Ids : db[i] \in InitialRows[i]
  /\ InitRedux
  /\ CtxOff
  /\ CatalogOff

TwoSpec == TwoInit /\ [][Next]_vars

\* the identities the slice publishes: user.id and pendingUserData.id
PublishedIdentities(state) ==
  (IF state.user = Null THEN {} ELSE {Val(state.user).id})
  \cup (IF state.pendingUserData = Null THEN {} ELSE {Val(state.pendingUserData).id})

\* no session callback is between its two dispatches and no lookup is in flight
LookupsDone ==
  /\ cb = Null
  /\ \A t \in BagToSet(thunks) : t.kind # "handleUserSession"

\* C28: when sessions of different identities A then B are resolved, then
\* once no lookup is in flight the published identity and state.session
\* both belong to B, the most recent session event, whatever the order in
\* which the lookups completed; a late result for A does not overwrite it.
C28_LatestSessionWins ==
  (latest # Null /\ ~signedOut /\ LookupsDone)
  => (/\ auth.session # Null
      /\ Val(auth.session).id = Val(latest)
      /\ PublishedIdentities(auth) \subseteq {Val(latest)})

\* the late result itself: the lookup of an earlier identity is the last to
\* be reduced and does not take the session over
C28_LateResultKeepsSession ==
  (/\ Settled("auth/handleUserSession/fulfilled")
   /\ Val(last.thunk).session # Null
   /\ latest # Null
   /\ Val(Val(last.thunk).session).id # Val(latest)
   /\ ~signedOut
   /\ LookupsDone)
  => (auth.session # Null /\ Val(auth.session).id = Val(latest))

====
